---- MODULE Spec2Model ----
(***************************************************************************)
(* pystr: fixed-layout binary records.  A model of                         *)
(*   - class declaration (Struct.__init_subclass__ and                     *)
(*     Decodable.__init_subclass__): literal collection, field creation,   *)
(*     size computation, registration in the decode lists;                 *)
(*   - instance construction and Decodable.decode;                         *)
(*   - the integer field accessors of the C extension;                     *)
(*   - the string field accessors, nested struct views, and instances      *)
(*     of several schemas over one buffer.                                 *)
(*                                                                         *)
(* Python values: None is the integer -1 where a size or a bit is          *)
(* optional; a class is its index in `classes` (0 is Decodable itself);    *)
(* a dict is the sequence of its items in insertion order; a dotted key    *)
(* "child.value" is the sequence of its terms <<"child", "value">>.        *)
(***************************************************************************)
EXTENDS Integers, Sequences, FiniteSets, TLC

VARIABLES
    classes,      \* the declared subclasses of Decodable, in declaration order
    decode_map,   \* owner class -> its own _decode_map list (class indices)
    own_map,      \* the classes that have _decode_map in their own __dict__
    field_map,    \* Struct._field_map: items <<type, generator>> in insertion order
    insts,        \* the instances: [tp, buf]
    bufs,         \* the allocated buffers: sequences of bytes
    last,         \* the last operation and its outcome
    intf,         \* integer-field model: the declared field
    mem,          \* integer-field model: the buffer the field lives in
    host          \* integer-field model: the build (byte order, UB outcomes)

vars == <<classes, decode_map, own_map, field_map, insts, bufs, last, intf, mem, host>>

classVars == <<classes, decode_map, own_map>>
instVars == <<insts, bufs>>
intVars == <<intf, mem, host>>

\* ------------------------------------------------------------------ bounds
MaxClasses == 3
MaxInsts == 2
MaxAliasClasses == 2
MaxLayoutClasses == 2
MaxOffset == 1
StrSize == 2
MaxNestClasses == 3
MaxConsClasses == 3
MaxShareClasses == 3
MaxNestInsts == 3
MaxBufs == 1
MaxByte == 1

None == -1

Max(a, b) == IF a >= b THEN a ELSE b

\* ------------------------------------------------------------------ types
\* The annotation types of the model and their single-inheritance parents.
TypeParent ==
    [t \in {"object", "int", "str", "Struct", "Nothing", "bool", "MyInt", "Decodable"} |->
        CASE t = "object" -> ""
          [] t = "bool" -> "int"
          [] t = "MyInt" -> "int"
          [] t = "Decodable" -> "Struct"
          [] OTHER -> "object"]

Types == DOMAIN TypeParent

RECURSIVE MroLen(_)
MroLen(t) == IF t = "" THEN 0 ELSE 1 + MroLen(TypeParent[t])

RECURSIVE IsSubclass(_, _)
IsSubclass(t, u) ==
    IF t = "" THEN FALSE
    ELSE IF t = u THEN TRUE
    ELSE IsSubclass(TypeParent[t], u)

\* A declared class used as an annotation: a subclass of Decodable; the
\* length of its mro grows with its depth.
RECURSIVE Depth(_, _)
Depth(cs, c) == IF c = 0 THEN 0 ELSE 1 + Depth(cs, cs[c].parent)

\* An annotation is [name, cls]: a builtin type (cls = 0) or the declared
\* class cls (name = "Decodable").
AnnIsSubclass(ann, u) == IsSubclass(ann.name, u)

\* ------------------------------------------------------------------ registry
\* struct.py, int_field.py, str_field.py register these at import.
DefaultFieldMap ==
    << <<"Struct", "StructField">>, <<"int", "IntField">>, <<"str", "StrField">> >>

\* dict assignment: an existing key keeps its position, a new key is appended.
DictSet(d, k, v) ==
    IF \E i \in 1..Len(d) : d[i][1] = k
    THEN [i \in 1..Len(d) |-> IF d[i][1] = k THEN <<k, v>> ELSE d[i]]
    ELSE Append(d, <<k, v>>)

register_field(fm, field_type, prop_type) == DictSet(fm, field_type, prop_type)

MaxMro == 4

\* sorted(items, key=len(mro)): Python's sort is stable and ascending.
RECURSIVE SortedFrom(_, _)
SortedFrom(fm, n) ==
    IF n > MaxMro THEN <<>>
    ELSE SelectSeq(fm, LAMBDA it : MroLen(it[1]) = n) \o SortedFrom(fm, n + 1)

f2p_map(fm) == SortedFrom(fm, 1)

\* The for/else of _create_fields: the first item of f2p_map whose type the
\* annotation is a subclass of; "" when there is none.
SelectGen(fm, ann) ==
    LET First(m) ==
            LET hits == {i \in 1..Len(m) : AnnIsSubclass(ann, m[i][1])}
            IN IF hits = {} THEN ""
               ELSE m[CHOOSE i \in hits : \A j \in hits : i <= j][2]
    IN First(f2p_map(fm))

\* ------------------------------------------------------------------ field generators
\* A field description is the dict given in _layout_: `keys` are the keys
\* present, the other fields hold their values or the NamedTuple defaults.
\* bit is <<>> (None), <<b>> (one bit) or <<msb, lsb>>.
Desc(keys, offset, width, endian, bit, size) ==
    [keys |-> keys, offset |-> offset, width |-> width, endian |-> endian,
     bit |-> bit, size |-> size]

IntDesc(offset, width, endian, bit) ==
    Desc({"offset", "width", "endian"} \cup (IF bit = <<>> THEN {} ELSE {"bit"}),
         offset, width, endian, bit, None)

\* dict(offset=o): fits IntFieldDesc and StructFieldDesc alike.
OffsetDesc(offset) == Desc({"offset"}, offset, 8, "h", <<>>, None)

SizedDesc(offset, size) == Desc({"offset", "size"}, offset, 8, "h", <<>>, size)

NoProp ==
    [gen |-> "", offset |-> 0, width |-> 0, endian |-> "", bit |-> <<>>,
     size |-> 0, hasEnd |-> FALSE, end |-> 0, tp |-> 0]

Failed(e) == [err |-> e, prop |-> NoProp]

\* The accessor functions the extension module defines (build.py FIELD).
LibEndians == {"le", "be", "h"}
LibWidths == {16, 32, 64}

\* IntField.__init__ with _init_sb and _init_mb: width 8 never looks at the
\* endian; widths 16, 32, 64 look the accessor up by name.
\* An IntField that checks the byte order of one-byte fields as well.
IntFieldInitStrict(desc) ==
    IF ~(desc.keys \subseteq {"offset", "width", "endian", "bit", "doc"})
       \/ "offset" \notin desc.keys
    THEN Failed("TypeError")
    ELSE IF (desc.width = 8 \/ desc.width \in LibWidths) /\ desc.endian \in LibEndians
    THEN [err |-> "none",
          prop |-> [gen |-> "IntField", offset |-> desc.offset, width |-> desc.width,
                    endian |-> desc.endian, bit |-> desc.bit, size |-> desc.width \div 8,
                    hasEnd |-> TRUE, end |-> desc.offset + desc.width \div 8, tp |-> 0]]
    ELSE Failed("NotImplementedError")

IntFieldInit(desc) ==
    IF ~(desc.keys \subseteq {"offset", "width", "endian", "bit", "doc"})
       \/ "offset" \notin desc.keys
    THEN Failed("TypeError")
    ELSE IF desc.width = 8 \/ (desc.width \in LibWidths /\ desc.endian \in LibEndians)
    THEN [err |-> "none",
          prop |-> [gen |-> "IntField", offset |-> desc.offset, width |-> desc.width,
                    endian |-> desc.endian, bit |-> desc.bit, size |-> desc.width \div 8,
                    hasEnd |-> TRUE, end |-> desc.offset + desc.width \div 8, tp |-> 0]]
    ELSE Failed("NotImplementedError")

StrFieldInit(desc) ==
    IF ~(desc.keys \subseteq {"offset", "size", "encoding", "terminator", "doc"})
       \/ ~({"offset", "size"} \subseteq desc.keys)
    THEN Failed("TypeError")
    ELSE [err |-> "none",
          prop |-> [gen |-> "StrField", offset |-> desc.offset, width |-> 0,
                    endian |-> "", bit |-> <<>>, size |-> desc.size,
                    hasEnd |-> TRUE, end |-> desc.offset + desc.size, tp |-> 0]]

\* StructField.__init__: the size defaults to the nested type's size() and
\* may not be smaller than it.
StructFieldInit(cs, desc, ann) ==
    LET tsize == IF ann.cls = 0 THEN 0 ELSE cs[ann.cls].size
        size == IF "size" \in desc.keys /\ desc.size # None THEN desc.size ELSE tsize
    IN IF ~(desc.keys \subseteq {"offset", "size", "doc"}) \/ "offset" \notin desc.keys
       THEN Failed("TypeError")
       ELSE IF size < tsize THEN Failed("ValueError")
       ELSE [err |-> "none",
             prop |-> [gen |-> "StructField", offset |-> desc.offset, width |-> 0,
                       endian |-> "", bit |-> <<>>, size |-> size,
                       hasEnd |-> TRUE, end |-> desc.offset + size, tp |-> ann.cls]]

\* A property class registered by a user (tests/test_struct.py
\* NothingProperty): it takes any description and has no _end_of_field.
CustomFieldInit(gen, desc) ==
    [err |-> "none",
     prop |-> [NoProp EXCEPT !.gen = gen, !.offset = desc.offset]]

\* prop_type(val, field_type=atype)
Generate(cs, gen, desc, ann) ==
    CASE gen = "IntField" -> IntFieldInit(desc)
      [] gen = "StrField" -> StrFieldInit(desc)
      [] gen = "StructField" -> StructFieldInit(cs, desc, ann)
      [] OTHER -> CustomFieldInit(gen, desc)

\* ------------------------------------------------------------------ class declaration
NoAnn == [name |-> "", cls |-> 0]
Builtin(t) == [name |-> t, cls |-> 0]
ClassAnn(c) == [name |-> "Decodable", cls |-> c]

Entry(name, ann, desc) == [name |-> name, ann |-> ann, desc |-> desc]

\* Decodable itself: no fields, no literals, size 0.
Root == [parent |-> 0, size |-> 0, fields |-> {}, props |-> <<>>, initial |-> <<>>]

ClassOf(cs, c) == IF c = 0 THEN Root ELSE cs[c]

\* The loop of _create_fields over the class's own _layout_, from entry i on:
\* the properties created so far and the running min_size.
RECURSIVE FieldLoop(_, _, _, _, _, _)
FieldLoop(cs, fm, layout, i, props, min_size) ==
    LET Stop(e) == [err |-> e, props |-> props, min_size |-> min_size]
        Made(r) ==
            IF r.err # "none" THEN Stop(r.err)
            ELSE FieldLoop(cs, fm, layout, i + 1,
                           DictSet(props, layout[i].name, r.prop),
                           IF r.prop.hasEnd THEN Max(min_size, r.prop.end) ELSE min_size)
        Selected(gen) ==
            IF gen = "" THEN Stop("ValueError: not registered")
            ELSE Made(Generate(cs, gen, layout[i].desc, layout[i].ann))
    IN IF i > Len(layout) THEN Stop("none")
       ELSE IF layout[i].ann = NoAnn THEN Stop("ValueError: not annotated")
       ELSE Selected(SelectGen(fm, layout[i].ann))

\* The size rule that closes _create_fields.  cls._size_ is read through the
\* class, so without a size argument it is the parent's _size_.
SizeRule(inherited, size, min_size) ==
    LET s0 == IF size # None THEN size ELSE inherited
        s1 == IF s0 = 0 THEN min_size ELSE s0
    IN [err |-> IF s1 < min_size THEN "ValueError: size" ELSE "none", size |-> s1]

_create_fields(cs, fm, parent, layout, size) ==
    LET Sized(loop, rule) ==
            [err |-> rule.err, props |-> loop.props, size |-> rule.size,
             min_size |-> loop.min_size]
        Looped(loop) ==
            IF loop.err # "none"
            THEN [err |-> loop.err, props |-> <<>>, size |-> 0, min_size |-> 0]
            ELSE Sized(loop, SizeRule(ClassOf(cs, parent).size, size, loop.min_size))
    IN Looped(FieldLoop(cs, fm, layout, 1, <<>>, 0))

RECURSIVE DictUpdate(_, _)
DictUpdate(d, items) ==
    IF items = <<>> THEN d
    ELSE DictUpdate(DictSet(d, Head(items)[1], Head(items)[2]), Tail(items))

\* _collect_initial: the initial= argument, then the class-body assignments
\* whose name is a field of the parent (cls._fields_ is still the parent's).
_collect_initial(cs, parent, initial, body) ==
    DictUpdate(initial,
               SelectSeq(body, LAMBDA it : Len(it[1]) = 1
                                            /\ it[1][1] \in ClassOf(cs, parent).fields))

PropNames(props) == {props[i][1] : i \in 1..Len(props)}

\* Struct.__init_subclass__: the new class, or the error it raises.
StructInitSubclass(cs, fm, parent, layout, size, initial, body) ==
    LET Made(cf) ==
            [err |-> cf.err,
             cls |-> [parent |-> parent,
                      size |-> cf.size,
                      fields |-> ClassOf(cs, parent).fields \cup PropNames(cf.props),
                      props |-> cf.props,
                      initial |-> _collect_initial(cs, parent, initial, body)]]
    IN Made(_create_fields(cs, fm, parent, layout, size))

\* cls._decode_map read through class c: the list of the nearest class of the
\* mro that has its own.
RECURSIVE MapOwner(_, _, _)
MapOwner(cs, own, c) ==
    IF c = 0 \/ c \in own THEN c ELSE MapOwner(cs, own, cs[c].parent)

\* ------------------------------------------------------------------ instances
\* The classes from the root of the hierarchy down to c: reversed(mro).
RECURSIVE Chain(_, _)
Chain(cs, c) == IF c = 0 THEN <<>> ELSE Append(Chain(cs, cs[c].parent), c)

DictGet(d, k) == d[CHOOSE i \in 1..Len(d) : d[i][1] = k][2]

\* The property that attribute `name` of an instance of class c resolves to:
\* the nearest class of the mro that created it; NoProp when there is none.
RECURSIVE FindProp(_, _, _)
FindProp(cs, c, name) ==
    IF c = 0 THEN NoProp
    ELSE IF name \in PropNames(cs[c].props) THEN DictGet(cs[c].props, name)
    ELSE FindProp(cs, cs[c].parent, name)

\* getattr(self, k) as decode calls it, k the whole key: a dotted key names
\* no attribute.  A byte field reads buffer[offset], which checks the index.
GetAttr(cs, tp, buf, key) ==
    LET Read(p) ==
            IF Len(key) # 1 \/ p.gen = "" THEN [err |-> "AttributeError", val |-> None]
            ELSE IF p.gen # "IntField" THEN [err |-> "none", val |-> None]
            ELSE IF p.offset >= Len(buf) THEN [err |-> "IndexError", val |-> None]
            ELSE [err |-> "none", val |-> buf[p.offset + 1]]
    IN Read(FindProp(cs, tp, key[1]))

\* setattr(self, name, val) on a field of the instance's class.
SetAttr(cs, tp, buf, name, val) ==
    LET Store(p) ==
            IF p.gen = "" THEN [err |-> "none", buf |-> buf]
            ELSE IF p.gen # "IntField" THEN [err |-> "AttributeError", buf |-> buf]
            ELSE IF p.offset >= Len(buf) THEN [err |-> "IndexError", buf |-> buf]
            ELSE [err |-> "none", buf |-> [buf EXCEPT ![p.offset + 1] = val]]
    IN Store(FindProp(cs, tp, name))

\* All (key, value) items of the _initial dicts of reversed(mro), in the order
\* Struct.__init__ applies them.
\* The same items with the most derived class first.
RECURSIVE LiteralsDerivedFirst(_, _)
LiteralsDerivedFirst(cs, chain) ==
    IF chain = <<>> THEN <<>>
    ELSE LiteralsDerivedFirst(cs, Tail(chain)) \o cs[Head(chain)].initial

RECURSIVE Literals(_, _)
Literals(cs, chain) ==
    IF chain = <<>> THEN <<>> ELSE cs[Head(chain)].initial \o Literals(cs, Tail(chain))

\* The literal loop of Struct.__init__ over items i.. : the buffer after the
\* writes made so far, and the error that stopped the loop.
RECURSIVE ApplyLiterals(_, _, _, _, _)
ApplyLiterals(cs, tp, buf, items, i) ==
    LET Set(r) == IF r.err # "none" THEN r ELSE ApplyLiterals(cs, tp, r.buf, items, i + 1)
    IN IF i > Len(items) THEN [err |-> "none", buf |-> buf]
       ELSE Set(SetAttr(cs, tp, buf, items[i][1][1], items[i][2]))

\* The classes whose instances the model constructs: every literal of the mro
\* names a field directly.
FlatChain(cs, c) ==
    LET Flat(items) == \A i \in 1..Len(items) : Len(items[i][1]) = 1
    IN Flat(Literals(cs, Chain(cs, c)))

\* memmove(self.buffer, init, len(init))
CopyIn(buf, init) ==
    [i \in 1..Len(buf) |-> IF i <= Len(init) THEN init[i] ELSE buf[i]]

Zeroes(n) == [i \in 1..n |-> 0]

\* ------------------------------------------------------------------ decode
\* all(getattr(self, k) == v for k, v in cond.items()) from item i on:
\* "true", "false", or the error getattr raised.
RECURSIVE CondHolds(_, _, _, _, _)
CondHolds(cs, tp, buf, cond, i) ==
    LET Got(g) ==
            IF g.err # "none" THEN g.err
            ELSE IF g.val # cond[i][2] THEN "false"
            ELSE CondHolds(cs, tp, buf, cond, i + 1)
    IN IF i > Len(cond) THEN "true" ELSE Got(GetAttr(cs, tp, buf, cond[i][1]))

\* for cond, child_tp in reversed(dmap): from position i downwards.  The
\* class of the first entry whose condition holds, 0 when the loop runs out.
RECURSIVE Scan(_, _, _, _, _)
Scan(cs, tp, buf, dmap, i) ==
    LET Tested(h) ==
            IF h = "true" THEN [err |-> "none", hit |-> dmap[i]]
            ELSE IF h = "false" THEN Scan(cs, tp, buf, dmap, i - 1)
            ELSE [err |-> h, hit |-> 0]
    IN IF i = 0 THEN [err |-> "none", hit |-> 0]
       ELSE Tested(CondHolds(cs, tp, buf, cs[dmap[i]].initial, 1))

\* The while loop of decode: ret_tp once no entry of the current list holds.
RECURSIVE Resolve(_, _, _, _, _, _, _)
Resolve(cs, dm, own, tp, buf, dmap, ret_tp) ==
    LET Scanned(s) ==
            IF s.err # "none" THEN [err |-> s.err, tp |-> ret_tp]
            ELSE IF s.hit = 0 THEN [err |-> "none", tp |-> ret_tp]
            ELSE Resolve(cs, dm, own, tp, buf, dm[MapOwner(cs, own, s.hit)], s.hit)
    IN Scanned(Scan(cs, tp, buf, dmap, Len(dmap)))

\* self.buffer of an instance built with ref=: the referenced storage
\* itself.  The buffers afterwards and the index of the instance's buffer.
RefBufferCopy(bs, b) == [bufs |-> Append(bs, bs[b]), buf |-> Len(bs) + 1]

RefBuffer(bs, b) == [bufs |-> bs, buf |-> b]

\* ------------------------------------------------------------------ actions
NoArgs == [parent |-> 0, layout |-> <<>>, size |-> None, initial |-> <<>>, body |-> <<>>]

Last(op, err, self, res, tp, pre, nbufs, args) ==
    [op |-> op, err |-> err, self |-> self, res |-> res, tp |-> tp, pre |-> pre,
     nbufs |-> nbufs, args |-> args]

\* class X(parent, initial=..., size=...): with _layout_ and class-body
\* assignments: Struct.__init_subclass__, then Decodable.__init_subclass__.
Declare(limit, parent, layout, size, initial, body) ==
    /\ Len(classes) < limit
    /\ \E r \in {StructInitSubclass(classes, field_map, parent, layout, size, initial, body)} :
       \E args \in {[parent |-> parent, layout |-> layout, size |-> size,
                      initial |-> initial, body |-> body]} :
          IF r.err # "none"
          THEN /\ UNCHANGED classVars
               /\ last' = Last("declare", r.err, 0, 0, 0, <<>>, 0, args)
          ELSE /\ classes' = Append(classes, r.cls)
               /\ IF r.cls.initial # <<>>
                  THEN /\ decode_map' = [decode_map EXCEPT
                                           ![MapOwner(classes, own_map, parent)] =
                                               Append(@, Len(classes) + 1)]
                       /\ own_map' = own_map \cup {Len(classes) + 1}
                  ELSE UNCHANGED <<decode_map, own_map>>
               /\ last' = Last("declare", "none", 0, 0, Len(classes) + 1, <<>>, 0, args)
    /\ UNCHANGED <<field_map, instVars, intVars>>

\* X(init): a fresh zeroed buffer of size() bytes, the copy-in, the literals.
NewInstance(c, init) ==
    /\ Len(insts) < MaxInsts
    /\ FlatChain(classes, c)
    /\ Len(init) <= classes[c].size
    /\ \E a \in {ApplyLiterals(classes, c, CopyIn(Zeroes(classes[c].size), init),
                                Literals(classes, Chain(classes, c)), 1)} :
          IF a.err # "none"
          THEN /\ UNCHANGED instVars
               /\ last' = Last("new", a.err, 0, 0, c, init, Len(bufs), NoArgs)
          ELSE /\ bufs' = Append(bufs, a.buf)
               /\ insts' = Append(insts, [tp |-> c, buf |-> Len(bufs) + 1])
               /\ last' = Last("new", "none", 0, Len(insts) + 1, c, init, Len(bufs), NoArgs)
    /\ UNCHANGED <<classVars, field_map, intVars>>

\* x.name = val
SetField(i, name, val) ==
    /\ name \in classes[insts[i].tp].fields
    /\ \E r \in {SetAttr(classes, insts[i].tp, bufs[insts[i].buf], name, val)} :
          /\ bufs' = [bufs EXCEPT ![insts[i].buf] = r.buf]
          /\ last' = Last("set", r.err, i, 0, insts[i].tp, bufs[insts[i].buf], Len(bufs),
                          NoArgs)
    /\ UNCHANGED <<classVars, field_map, insts, intVars>>

\* ret_tp(ref=self.buffer): the instance shares the buffer, then the
\* literals of ret_tp's mro are written to it.
Rebuild(i, ret_tp, ref) ==
    \E a \in {ApplyLiterals(classes, ret_tp, ref.bufs[ref.buf],
                             Literals(classes, Chain(classes, ret_tp)), 1)} :
        /\ Len(insts) < MaxInsts
        /\ FlatChain(classes, ret_tp)
        /\ bufs' = [ref.bufs EXCEPT ![ref.buf] = a.buf]
        /\ IF a.err # "none"
           THEN /\ UNCHANGED insts
                /\ last' = Last("decode", a.err, i, 0, ret_tp, bufs[insts[i].buf],
                                Len(bufs), NoArgs)
           ELSE /\ insts' = Append(insts, [tp |-> ret_tp, buf |-> ref.buf])
                /\ last' = Last("decode", "none", i, Len(insts) + 1, ret_tp,
                                bufs[insts[i].buf], Len(bufs), NoArgs)

\* x.decode()
Decode(i) ==
    \E r \in {Resolve(classes, decode_map, own_map, insts[i].tp, bufs[insts[i].buf],
                       decode_map[MapOwner(classes, own_map, insts[i].tp)], insts[i].tp)} :
        IF r.err # "none"
        THEN /\ UNCHANGED instVars
             /\ last' = Last("decode", r.err, i, 0, r.tp, bufs[insts[i].buf], Len(bufs),
                             NoArgs)
        ELSE IF r.tp = insts[i].tp
        THEN /\ UNCHANGED instVars
             /\ last' = Last("decode", "none", i, i, r.tp, bufs[insts[i].buf], Len(bufs),
                             NoArgs)
        ELSE \E ref \in {RefBuffer(bufs, insts[i].buf)} : Rebuild(i, r.tp, ref)

DecodeStep(i) == Decode(i) /\ UNCHANGED <<classVars, field_map, intVars>>

\* ------------------------------------------------------------------ decode specification
Lit(name, v) == << <<name>>, v >>

\* The layouts a class deriving Decodable directly declares: two byte fields;
\* one byte field of another name; a nested view of the first declared class.
BaseLayouts ==
    { << Entry("first", Builtin("int"), OffsetDesc(0)),
         Entry("second", Builtin("int"), OffsetDesc(1)) >>,
      << Entry("third", Builtin("int"), OffsetDesc(0)) >> }
    \cup (IF Len(classes) >= 1
          THEN { << Entry("child", ClassAnn(1), OffsetDesc(0)) >> }
          ELSE {})

\* The class-body assignments of a derived class: at most one, of a byte.
Bodies ==
    { <<>> } \cup { << Lit(n, v) >> : n \in {"first", "second", "third"}, v \in 0..MaxByte }

\* initial={"child.first": 1} on a class that has the field child.
Initials(parent) ==
    { <<>> } \cup (IF "child" \in ClassOf(classes, parent).fields
                   THEN { << << <<"child", "first">>, 1 >> >> }
                   ELSE {})

Bytes(n) == [1..n -> 0..MaxByte]

IdleInt == [declared |-> FALSE]

InitDecode ==
    /\ classes = <<>>
    /\ decode_map = [c \in 0..MaxClasses |-> <<>>]
    /\ own_map = {0}
    /\ field_map = DefaultFieldMap
    /\ insts = <<>>
    /\ bufs = <<>>
    /\ last = Last("init", "none", 0, 0, 0, <<>>, 0, NoArgs)
    /\ intf = IdleInt
    /\ mem = <<>>
    /\ host = "idle"

DeclareBase == \E layout \in BaseLayouts : Declare(MaxClasses, 0, layout, None, <<>>, <<>>)

DeclareDerived ==
    \E parent \in 1..Len(classes) :
        \/ \E body \in Bodies : Declare(MaxClasses, parent, <<>>, None, <<>>, body)
        \/ \E initial \in Initials(parent) : Declare(MaxClasses, parent, <<>>, None, initial, <<>>)

Construct ==
    /\ Len(bufs) < MaxBufs
    /\ \E c \in 1..Len(classes) :
          \E n \in {0, classes[c].size} : \E init \in Bytes(n) : NewInstance(c, init)

Write ==
    \E i \in 1..Len(insts) : \E name \in {"first", "second", "third"} :
        \E v \in 0..MaxByte : SetField(i, name, v)

DecodeAny == \E i \in 1..Len(insts) : DecodeStep(i)

NextDecode == DeclareBase \/ DeclareDerived \/ Construct \/ Write \/ DecodeAny

SpecDecode == InitDecode /\ [][NextDecode]_vars

\* ------------------------------------------------------------------ aliasing specification
\* The same operations on one family of schemas: a base with two byte fields
\* and derived classes that give one of them the literal 1; at most MaxBufs
\* instances are allocated (zeroed, then written field by field), the others
\* come from decode.
AliasDeclareBase ==
    Declare(MaxAliasClasses, 0,
            << Entry("first", Builtin("int"), OffsetDesc(0)),
               Entry("second", Builtin("int"), OffsetDesc(1)) >>, None, <<>>, <<>>)

AliasDeclareDerived ==
    \E parent \in 1..Len(classes) :
        \E body \in { <<>>, << Lit("first", 1) >>, << Lit("second", 1) >> } :
            Declare(MaxAliasClasses, parent, <<>>, None, <<>>, body)

AliasConstruct ==
    /\ Len(bufs) < MaxBufs
    /\ \E c \in 1..Len(classes) : NewInstance(c, <<>>)

\* The bytes written: the literal of the derived classes, and another value.
AliasValues == {0, 1}

AliasWrite ==
    \E i \in 1..Len(insts) : \E name \in {"first", "second"} :
        \E v \in AliasValues : SetField(i, name, v)

AliasDecode == \E i \in 1..Len(insts) : DecodeStep(i)

NextAlias ==
    AliasDeclareBase \/ AliasDeclareDerived \/ AliasConstruct \/ AliasWrite \/ AliasDecode

SpecAlias == InitDecode /\ [][NextAlias]_vars

\* ------------------------------------------------------------------ layout specification
\* One-field layouts: a byte at 0; 32 bits at 1; 64 bits at 0; a field
\* annotated with a subclass of int; one annotated with a class of its own;
\* one without annotation; a nested view of the first declared class.
LayoutChoices ==
    { <<>>,
      << Entry("a", Builtin("int"), OffsetDesc(0)) >>,
      << Entry("b", Builtin("int"), IntDesc(1, 32, "h", <<>>)) >>,
      << Entry("w", Builtin("int"), IntDesc(0, 64, "be", <<>>)) >>,
      << Entry("m", Builtin("MyInt"), OffsetDesc(0)) >>,
      << Entry("n", Builtin("Nothing"), OffsetDesc(0)) >>,
      << Entry("u", NoAnn, OffsetDesc(0)) >> }
    \cup (IF Len(classes) >= 1
          THEN { << Entry("s", ClassAnn(1), SizedDesc(0, 2)) >> }
          ELSE {})

SizeChoices == {None, 2, 5, 10}

\* @Struct.register_field(T) on a property class of the user.
Registrations == { <<"MyInt", "MyIntField">>, <<"Nothing", "NothingProperty">> }

RegisterField(field_type, prop_type) ==
    /\ field_map' = register_field(field_map, field_type, prop_type)
    /\ last' = Last("register", "none", 0, 0, 0, <<>>, 0, NoArgs)
    /\ UNCHANGED <<classVars, instVars, intVars>>

Register == \E reg \in Registrations : RegisterField(reg[1], reg[2])

DeclareStruct ==
    \E parent \in 0..Len(classes) : \E layout \in LayoutChoices : \E size \in SizeChoices :
        Declare(MaxLayoutClasses, parent, layout, size, <<>>, <<>>)

NextLayout == Register \/ DeclareStruct

SpecLayout == InitDecode /\ [][NextLayout]_vars

\* ------------------------------------------------------------------ integer accessors
\* Words are sets of bit positions; a byte of memory is a subset of 0..7.
Bits(n) == 0..(n - 1)

IntBits == Bits(32)

\* 1 << n on the C int 1. A count of 32 or more is undefined: the hardware
\* either takes the count modulo 32 or shifts everything out. A count of 31
\* yields the sign bit.
Shl1(n, shift) ==
    IF n < 32 THEN {n}
    ELSE IF shift = "mod" THEN {n % 32}
    ELSE {}

\* x - 1 on a C int in two's complement (0 - 1 is all ones, INT_MIN - 1 wraps).
Dec(x) ==
    IF x = {} THEN IntBits
    ELSE LET low == CHOOSE b \in x : \A c \in x : b <= c
         IN (x \ {low}) \cup Bits(low)

\* ~x on a C int.
Not(x) == IntBits \ x

\* The usual arithmetic conversion of an int to the type the w-bit word is
\* computed in: sign extension for uint64_t, the same bits otherwise.
Widen(x, w) == IF w = 64 /\ 31 \in x THEN x \cup (32..63) ELSE x

\* The width in bits of the type a w-bit operand is computed in.
Promoted(w) == IF w = 64 THEN 64 ELSE 32

Shr(x, n) == { b - n : b \in { c \in x : c >= n } }
Shl(x, n, w) == { b + n : b \in x } \cap Bits(Promoted(w))

\* #define mask(msb, lsb)
mask(msb, lsb, shift) == Dec(Shl1(msb + 1, shift)) \cap Not(Dec(Shl1(lsb, shift)))

\* (1 << (msb + 1)) - 1
LowMask(msb, shift) == Dec(Shl1(msb + 1, shift))

\* __builtin_bswap{16,32,64}
Bswap(x, w) == { 8 * ((w \div 8) - 1 - (b \div 8)) + (b % 8) : b \in x }

\* sys.byteorder picks which of le / be needs no swap.
NoSwap(order) == IF order = "little" THEN "le" ELSE "be"

\* A conversion that never swaps.
ConvertNoSwap(ed, order, x, w) == x

\* _{ed}toh{b} and _hto{ed}{b}: the same macro in both directions.
Convert(ed, order, x, w) == IF ed = "h" \/ ed = NoSwap(order) THEN x ELSE Bswap(x, w)

\* The position in the word of bit 0 of the k-th byte (0-based) of a w-bit
\* unit in memory.
BytePos(k, w, order) == IF order = "little" THEN 8 * k ELSE 8 * ((w \div 8) - 1 - k)

\* *(uint{b}_t *)(ptr + offset) read and written.
Load(m, offset, w, order) ==
    UNION { { BytePos(k, w, order) + b : b \in m[offset + 1 + k] } : k \in 0..((w \div 8) - 1) }

Store(m, offset, w, order, x) ==
    [i \in 1..Len(m) |->
        IF i - 1 >= offset /\ i - 1 < offset + (w \div 8)
        THEN { b \in 0..7 : BytePos(i - 1 - offset, w, order) + b \in x }
        ELSE m[i]]

\* get_{ed}_field{b} and set_{ed}_field{b}
get_field(m, offset, w, ed, order) == Convert(ed, order, Load(m, offset, w, order), w)

set_field(m, value, offset, w, ed, order) ==
    Store(m, offset, w, order, Convert(ed, order, value \cap Bits(w), w))

\* get_{ed}_field{b}_partial, returned as uint{b}_t
get_field_partial(m, offset, w, ed, plat, msb, lsb) ==
    Shr(get_field(m, offset, w, ed, plat.order) \cap Widen(LowMask(msb, plat.shift), w), lsb)
        \cap Bits(w)

\* set_{ed}_field{b}_partial
set_field_partial(m, value, offset, w, ed, plat, msb, lsb) ==
    set_field(m,
              (get_field(m, offset, w, ed, plat.order)
                   \cap Widen(Not(mask(msb, lsb, plat.shift)), w))
                \cup (Shl(value, lsb, w) \cap Widen(LowMask(msb, plat.shift), w)),
              offset, w, ed, plat.order)

\* get_field8_partial and set_field8_partial: one byte, no byte order.
get_field8_partial(m, offset, plat, msb, lsb) ==
    Shr(m[offset + 1] \cap LowMask(msb, plat.shift), lsb) \cap Bits(8)

set_field8_partial(m, value, offset, plat, msb, lsb) ==
    [m EXCEPT ![offset + 1] =
        ((@ \cap Not(mask(msb, lsb, plat.shift)))
           \cup (Shl(value, lsb, 8) \cap LowMask(msb, plat.shift))) \cap Bits(8)]

\* The getter and the setter IntField builds for a descriptor.
IntGetter(p, m, plat) ==
    IF p.width = 8
    THEN IF p.bit = <<>> THEN m[p.offset + 1]
         ELSE get_field8_partial(m, p.offset, plat, p.bit[1], p.bit[2])
    ELSE IF p.bit = <<>> THEN get_field(m, p.offset, p.width, p.endian, plat.order)
         ELSE get_field_partial(m, p.offset, p.width, p.endian, plat, p.bit[1], p.bit[2])

IntSetter(p, m, value, plat) ==
    IF p.width = 8
    THEN IF p.bit = <<>> THEN [m EXCEPT ![p.offset + 1] = value]
         ELSE set_field8_partial(m, value, p.offset, plat, p.bit[1], p.bit[2])
    ELSE IF p.bit = <<>> THEN set_field(m, value, p.offset, p.width, p.endian, plat.order)
         ELSE set_field_partial(m, value, p.offset, p.width, p.endian, plat, p.bit[1], p.bit[2])

\* ------------------------------------------------------------------ integer specification
Platforms == [order : {"little", "big"}, shift : {"mod", "zero"}]

InitInt ==
    /\ classes = <<>>
    /\ decode_map = [c \in 0..MaxClasses |-> <<>>]
    /\ own_map = {0}
    /\ field_map = DefaultFieldMap
    /\ insts = <<>>
    /\ bufs = <<>>
    /\ last = Last("init", "none", 0, 0, 0, <<>>, 0, NoArgs)
    /\ intf = IdleInt
    /\ mem = <<>>
    /\ host \in Platforms

\* class S(Struct): _layout_ = dict(x=desc); x: int    declared until one
\* declaration succeeds; no instance of the class exists yet.
IntDeclare(desc) ==
    /\ ~intf.declared
    /\ \E args \in {[parent |-> 0, layout |-> << Entry("x", Builtin("int"), desc) >>,
                     size |-> None, initial |-> <<>>, body |-> <<>>]} :
       \E r \in {StructInitSubclass(<<>>, field_map, 0, args.layout, None, <<>>, <<>>)} :
          /\ intf' = IF r.err = "none"
                     THEN [declared |-> TRUE, prop |-> r.cls.props[1][2], size |-> r.cls.size]
                     ELSE IdleInt
          /\ last' = Last("intfield", r.err, 0, 0, 0, <<>>, 0, args)
    /\ mem' = <<>>
    /\ UNCHANGED <<classVars, field_map, instVars, host>>

\* S(bytes): the buffer of a fresh instance, every byte holding the pattern.
IntConstruct(pattern) ==
    /\ intf.declared
    /\ mem' = [i \in 1..intf.size |-> pattern]
    /\ last' = Last("construct", "none", 0, 0, 0, mem, 0, NoArgs)
    /\ UNCHANGED <<classVars, field_map, instVars, intf, host>>

\* s.x = value
IntSet(value) ==
    /\ intf.declared /\ mem # <<>>
    /\ mem' = IntSetter(intf.prop, mem, value, host)
    /\ last' = Last("set", "none", 0, 0, 0, mem, 0, [value |-> value])
    /\ UNCHANGED <<classVars, field_map, instVars, intf, host>>

\* s.x
IntGet ==
    /\ intf.declared /\ mem # <<>>
    /\ last' = Last("get", "none", 0, IntGetter(intf.prop, mem, host), 0, mem, 0, NoArgs)
    /\ UNCHANGED <<classVars, field_map, instVars, intVars>>

Widths == {8, 16, 24, 32, 64}
Endians == {"le", "be", "h", "pdp"}
BitRanges == {<<>>, <<6, 1>>, <<7, 0>>, <<14, 1>>, <<30, 1>>, <<31, 0>>, <<31, 31>>,
              <<40, 33>>, <<63, 0>>}
Patterns == { {}, 0..7, {0, 2, 5, 7} }

\* Bit ranges within the field: 0 <= lsb <= msb < width.
DeclareIntField ==
    \E offset \in 0..MaxOffset : \E width \in Widths : \E endian \in Endians :
        \E bit \in { b \in BitRanges : b = <<>> \/ b[1] < width } :
            IntDeclare(IntDesc(offset, width, endian, bit))

ConstructInt == \E pattern \in Patterns : IntConstruct(pattern)

\* The width of the value the field holds.
ValueBits(p) == IF p.bit = <<>> THEN p.width ELSE p.bit[1] - p.bit[2] + 1

\* Zero, one, all ones and the top bit of the field's range, and the all ones
\* of the storage unit.
Values(p) ==
    { {}, {0}, Bits(ValueBits(p)), {ValueBits(p) - 1}, Bits(p.width) }

SetInt == intf.declared /\ \E value \in Values(intf.prop) : IntSet(value)

NextInt == DeclareIntField \/ ConstructInt \/ SetInt \/ IntGet

SpecInt == InitInt /\ [][NextInt]_vars

\* ------------------------------------------------------------------ string accessors
\* A str is the sequence of its code points; bytes are integers 0..255 here
\* and sets of bit positions in memory.
ByteVal(b) ==
    (IF 0 \in b THEN 1 ELSE 0) + (IF 1 \in b THEN 2 ELSE 0) + (IF 2 \in b THEN 4 ELSE 0)
    + (IF 3 \in b THEN 8 ELSE 0) + (IF 4 \in b THEN 16 ELSE 0) + (IF 5 \in b THEN 32 ELSE 0)
    + (IF 6 \in b THEN 64 ELSE 0) + (IF 7 \in b THEN 128 ELSE 0)

ByteBits(n) == { b \in 0..7 : (n \div (2 ^ b)) % 2 = 1 }

\* U+FFFD, what errors="replace" puts for an undecodable byte.
Replacement == 65533

\* One code point in UTF-8 (one to three bytes).
Utf8(c) ==
    IF c < 128 THEN << c >>
    ELSE IF c < 2048 THEN << 192 + (c \div 64), 128 + (c % 64) >>
    ELSE << 224 + (c \div 4096), 128 + ((c \div 64) % 64), 128 + (c % 64) >>

\* str.encode(encoding): the bytes, or UnicodeEncodeError.
RECURSIVE StrEncode(_, _)
StrEncode(encoding, str) ==
    IF str = <<>> THEN [err |-> "none", bytes |-> <<>>]
    ELSE LET Rest(r) ==
                 IF r.err # "none" THEN r
                 ELSE IF encoding = "utf-8"
                 THEN [err |-> "none", bytes |-> Utf8(Head(str)) \o r.bytes]
                 ELSE IF Head(str) < (IF encoding = "ascii" THEN 128 ELSE 256)
                 THEN [err |-> "none", bytes |-> << Head(str) >> \o r.bytes]
                 ELSE [err |-> "UnicodeEncodeError", bytes |-> <<>>]
         IN Rest(StrEncode(encoding, Tail(str)))

IsCont(bs, i) == i <= Len(bs) /\ bs[i] >= 128 /\ bs[i] <= 191

\* bytes.decode(encoding, errors="replace") from byte i on.  UTF-8 sequences
\* of one to three bytes; an invalid or cut sequence gives one replacement
\* character for its longest valid start.
RECURSIVE BytesDecode(_, _, _)
BytesDecode(encoding, bs, i) ==
    IF i > Len(bs) THEN <<>>
    ELSE IF encoding = "latin1" THEN << bs[i] >> \o BytesDecode(encoding, bs, i + 1)
    ELSE IF bs[i] < 128 THEN << bs[i] >> \o BytesDecode(encoding, bs, i + 1)
    ELSE IF encoding = "ascii" THEN << Replacement >> \o BytesDecode(encoding, bs, i + 1)
    ELSE IF bs[i] >= 194 /\ bs[i] <= 223 /\ IsCont(bs, i + 1)
    THEN << (bs[i] - 192) * 64 + (bs[i + 1] - 128) >> \o BytesDecode(encoding, bs, i + 2)
    ELSE IF bs[i] >= 225 /\ bs[i] <= 236 /\ IsCont(bs, i + 1) /\ IsCont(bs, i + 2)
    THEN << (bs[i] - 224) * 4096 + (bs[i + 1] - 128) * 64 + (bs[i + 2] - 128) >>
           \o BytesDecode(encoding, bs, i + 3)
    ELSE IF bs[i] >= 225 /\ bs[i] <= 236 /\ IsCont(bs, i + 1)
    THEN << Replacement >> \o BytesDecode(encoding, bs, i + 2)
    ELSE << Replacement >> \o BytesDecode(encoding, bs, i + 1)

\* ret.split(terminator, 1)[0]: the part before the first occurrence of the
\* whole terminator string.
SplitFirst(ret, terminator) ==
    LET At == { i \in 1..(Len(ret) - Len(terminator) + 1) :
                  SubSeq(ret, i, i + Len(terminator) - 1) = terminator }
    IN IF At = {} THEN ret
       ELSE SubSeq(ret, 1, (CHOOSE i \in At : \A j \in At : i <= j) - 1)

\* The bytes buffer[offset:offset + size].
Slice(m, offset, size) == [k \in 1..size |-> ByteVal(m[offset + k])]

\* StrField getter
StrGetter(f, m) ==
    LET Cut(ret) == IF f.terminator # <<>> THEN SplitFirst(ret, f.terminator) ELSE ret
    IN Cut(BytesDecode(f.encoding, Slice(m, f.prop.offset, f.prop.size), 1))

\* StrField setter: ord(terminator) is evaluated only when there is padding
\* to produce, and takes a string of exactly one character.
StrSetter(f, m, val) ==
    LET Put(val_) ==
            IF Len(val_) < f.prop.size /\ Len(f.terminator) # 1
            THEN [err |-> "TypeError", mem |-> m]
            ELSE [err |-> "none",
                  mem |-> [i \in 1..Len(m) |->
                             IF i - 1 < f.prop.offset \/ i - 1 >= f.prop.offset + f.prop.size
                             THEN m[i]
                             ELSE IF i - f.prop.offset <= Len(val_)
                             THEN ByteBits(val_[i - f.prop.offset])
                             ELSE ByteBits(f.terminator[1] % 256)]]
        Enc(r) ==
            IF r.err # "none" THEN [err |-> r.err, mem |-> m]
            ELSE Put(SubSeq(r.bytes, 1, Max(0, IF Len(r.bytes) < f.prop.size
                                               THEN Len(r.bytes) ELSE f.prop.size)))
    IN Enc(StrEncode(f.encoding, val))

\* ------------------------------------------------------------------ string specification
\* class S(Struct): _layout_ = dict(s=StrFieldDesc(offset, size, encoding,
\* terminator)); s: str
StrDeclare(offset, size, encoding, terminator) ==
    /\ ~intf.declared
    /\ \E args \in {[parent |-> 0,
                     layout |-> << Entry("s", Builtin("str"), SizedDesc(offset, size)) >>,
                     size |-> None, initial |-> <<>>, body |-> <<>>]} :
       \E r \in {StructInitSubclass(<<>>, field_map, 0, args.layout, None, <<>>, <<>>)} :
          /\ intf' = IF r.err = "none"
                     THEN [declared |-> TRUE, prop |-> r.cls.props[1][2], size |-> r.cls.size,
                           encoding |-> encoding, terminator |-> terminator]
                     ELSE IdleInt
          /\ last' = Last("strfield", r.err, 0, 0, 0, <<>>, 0, args)
    /\ mem' = <<>>
    /\ UNCHANGED <<classVars, field_map, instVars, host>>

\* S(bytes)
StrConstruct(pattern) ==
    /\ intf.declared
    /\ mem' = [i \in 1..intf.size |-> ByteBits(pattern)]
    /\ last' = Last("construct", "none", 0, 0, 0, mem, 0, NoArgs)
    /\ UNCHANGED <<classVars, field_map, instVars, intf, host>>

\* s.s = val
StrSet(val) ==
    /\ intf.declared /\ mem # <<>>
    /\ \E r \in {StrSetter(intf, mem, val)} :
          /\ mem' = r.mem
          /\ last' = Last("set", r.err, 0, 0, 0, mem, 0, [value |-> val])
    /\ UNCHANGED <<classVars, field_map, instVars, intf, host>>

\* s.s
StrGet ==
    /\ intf.declared /\ mem # <<>>
    /\ last' = Last("get", "none", 0, StrGetter(intf, mem), 0, mem, 0, NoArgs)
    /\ UNCHANGED <<classVars, field_map, instVars, intVars>>

Encodings == {"utf-8", "latin1", "ascii"}

\* "", "\0", "\0\n" and "a"
Terminators == { <<>>, << 0 >>, << 0, 10 >>, << 97 >> }

\* NUL, newline and "a" in every combination of up to StrSize + 1
\* characters, and strings with an "e acute".
RECURSIVE StrOver(_, _)
StrOver(chars, n) ==
    IF n = 0 THEN { <<>> }
    ELSE StrOver(chars, n - 1)
           \cup { << c >> \o t : c \in chars, t \in { u \in StrOver(chars, n - 1) : Len(u) = n - 1 } }

StrValues == StrOver({0, 10, 97}, StrSize + 1) \cup { << 233 >>, << 97, 233 >>, << 97, 97, 233 >> }

BytePatterns == {0, 120, 255}

DeclareStrField ==
    \E offset \in 0..MaxOffset : \E encoding \in Encodings : \E terminator \in Terminators :
        StrDeclare(offset, StrSize, encoding, terminator)

ConstructStr == \E pattern \in BytePatterns : StrConstruct(pattern)

SetStr == \E val \in StrValues : StrSet(val)

NextStr == DeclareStrField \/ ConstructStr \/ SetStr \/ StrGet

SpecStr == InitDecode /\ [][NextStr]_vars

\* ------------------------------------------------------------------ nested struct fields
\* Here an instance is [tp, buf, off, len, cache]: its buffer is the window
\* [off, off + len) of bufs[buf] (a cdata array or a slice of one, which is a
\* view), and cache holds the entries the StructField getters put in its
\* __dict__, as items <<name, instance>>.
View(bs, x) == SubSeq(bs[x.buf], x.off + 1, x.off + x.len)

PutView(bs, x, content) ==
    [bs EXCEPT ![x.buf] =
        [k \in 1..Len(@) |-> IF k > x.off /\ k <= x.off + x.len THEN content[k - x.off] ELSE @[k]]]

\* A slice that copies its bytes into storage of its own.
SliceViewCopy(bs, x, offset, size) ==
    [bufs |-> Append(bs, SubSeq(bs[x.buf], x.off + offset + 1, x.off + offset + size)),
     buf |-> Len(bs) + 1, off |-> 0, len |-> size]

\* struct.buffer[self.offset:self.offset + self.size]
SliceView(bs, x, offset, size) ==
    [bufs |-> bs, buf |-> x.buf, off |-> x.off + offset, len |-> size]

InCache(cache, name) == \E k \in 1..Len(cache) : cache[k][1] = name

\* tp(...) on the window w: the literal loop of Struct.__init__ writes the
\* literals of tp's mro through the window.
Built(bs, tp, w) ==
    LET Done(a) == [err |-> a.err, bufs |-> PutView(bs, w, a.buf)]
    IN Done(ApplyLiterals(classes, tp, View(bs, w), Literals(classes, Chain(classes, tp)), 1))

\* tp(): a zeroed allocation of size() bytes, the one allocation made.
NestConstruct(c) ==
    /\ Len(insts) < MaxNestInsts /\ bufs = <<>>
    /\ \E w \in {[buf |-> Len(bufs) + 1, off |-> 0, len |-> classes[c].size]} :
       \E r \in {Built(Append(bufs, Zeroes(classes[c].size)), c, w)} :
          /\ r.err = "none"
          /\ bufs' = r.bufs
          /\ insts' = Append(insts, [tp |-> c, buf |-> w.buf, off |-> w.off, len |-> w.len,
                                     cache |-> <<>>])
          /\ last' = Last("new", "none", 0, Len(insts) + 1, c, <<>>, Len(bufs), NoArgs)
    /\ UNCHANGED <<classVars, field_map, intVars>>

\* tp(ref=x): the instance takes x.buffer.
NestAlias(i, c) ==
    /\ Len(insts) < MaxNestInsts
    /\ classes[c].size <= insts[i].len
    /\ \E r \in {Built(bufs, c, insts[i])} :
          /\ r.err = "none"
          /\ bufs' = r.bufs
          /\ insts' = Append(insts, [insts[i] EXCEPT !.tp = c, !.cache = <<>>])
          /\ last' = Last("ref", "none", i, Len(insts) + 1, c, <<>>, Len(bufs), NoArgs)
    /\ UNCHANGED <<classVars, field_map, intVars>>

\* x.name for a StructField: the cached object, or a new instance of the
\* field's type over the slice, cached under the field's name.
NestRead(i, name) ==
    /\ FindProp(classes, insts[i].tp, name).gen = "StructField"
    /\ IF InCache(insts[i].cache, name)
       THEN /\ last' = Last("getstruct", "none", i, DictGet(insts[i].cache, name), 0, <<>>,
                            Len(bufs), [name |-> name, cached |-> DictGet(insts[i].cache, name)])
            /\ UNCHANGED instVars
       ELSE /\ Len(insts) < MaxNestInsts
            /\ \E p \in {FindProp(classes, insts[i].tp, name)} :
               \E w \in {SliceView(bufs, insts[i], p.offset, p.size)} :
               \E r \in {Built(w.bufs, p.tp, w)} :
                  /\ r.err = "none"
                  /\ bufs' = r.bufs
                  /\ insts' = Append([insts EXCEPT ![i].cache = Append(@, <<name, Len(insts) + 1>>)],
                                     [tp |-> p.tp, buf |-> w.buf, off |-> w.off, len |-> w.len,
                                      cache |-> <<>>])
                  /\ last' = Last("getstruct", "none", i, Len(insts) + 1, 0, <<>>, Len(bufs),
                                  [name |-> name, cached |-> 0])
    /\ UNCHANGED <<classVars, field_map, intVars>>

\* x.name = val for a byte field, through any instance.
NestWrite(i, name, val) ==
    /\ FindProp(classes, insts[i].tp, name).gen = "IntField"
    /\ \E r \in {SetAttr(classes, insts[i].tp, View(bufs, insts[i]), name, val)} :
          /\ bufs' = PutView(bufs, insts[i], r.buf)
          /\ last' = Last("set", r.err, i, 0, insts[i].tp, bufs, Len(bufs), NoArgs)
    /\ UNCHANGED <<classVars, field_map, insts, intVars>>

\* x.name = y for a StructField: the property has no setter.
NestAssign(i, name) ==
    /\ FindProp(classes, insts[i].tp, name).gen = "StructField"
    /\ \E r \in {SetAttr(classes, insts[i].tp, View(bufs, insts[i]), name, 0)} :
          /\ bufs' = PutView(bufs, insts[i], r.buf)
          /\ last' = Last("setstruct", r.err, i, 0, insts[i].tp, bufs, Len(bufs),
                          [name |-> name, cached |-> 0])
    /\ UNCHANGED <<classVars, field_map, insts, intVars>>

\* ------------------------------------------------------------------ nested specification
\* Inner: a byte field.  A class deriving it with the literal a = 1.
\* Outer: a byte field and a nested field, at the start or further on, of
\* the first class or of the class declared last.  The
\* classes are declared before the first instance is made.
NestDeclareInner ==
    /\ classes = <<>>
    /\ Declare(MaxNestClasses, 0, << Entry("a", Builtin("int"), OffsetDesc(0)) >>,
               None, <<>>, <<>>)

NestDeclareLiteral ==
    /\ Len(classes) = 1 /\ insts = <<>>
    /\ Declare(MaxNestClasses, 1, <<>>, None, <<>>, << Lit("a", 1) >>)

NestDeclareOuter ==
    /\ Len(classes) >= 1 /\ insts = <<>>
    /\ \E tp \in {1, Len(classes)} : \E offset \in {0, MaxOffset} :
          Declare(MaxNestClasses, 0,
                  << Entry("x", Builtin("int"), OffsetDesc(0)),
                     Entry("child", ClassAnn(tp), OffsetDesc(offset)) >>, None, <<>>, <<>>)

NestNames == {"a", "x", "child"}

NestNew == \E c \in 1..Len(classes) : NestConstruct(c)

\* An alias of the instance's own class or of the first class.
NestRef == \E i \in 1..Len(insts) : \E c \in {1, insts[i].tp} : NestAlias(i, c)

NestGet == \E i \in 1..Len(insts) : \E name \in NestNames : NestRead(i, name)

NestSet == \E i \in 1..Len(insts) : \E name \in NestNames : \E val \in AliasValues :
               NestWrite(i, name, val)

NestSetStruct == \E i \in 1..Len(insts) : \E name \in NestNames : NestAssign(i, name)

NextNested ==
    \/ NestDeclareInner \/ NestDeclareLiteral \/ NestDeclareOuter
    \/ NestNew \/ NestRef \/ NestGet \/ NestSet \/ NestSetStruct

SpecNested == InitDecode /\ [][NextNested]_vars

\* ------------------------------------------------------------------ construction specification
\* A base class of three byte fields and classes deriving from it or from
\* each other with literals given in the class body, in initial=, or both.
ConsDeclareBase ==
    /\ classes = <<>>
    /\ Declare(MaxConsClasses, 0,
               << Entry("first", Builtin("int"), OffsetDesc(0)),
                  Entry("second", Builtin("int"), OffsetDesc(1)),
                  Entry("third", Builtin("int"), OffsetDesc(2)) >>, None, <<>>, <<>>)

ConsLiterals ==
    { [initial |-> <<>>, body |-> <<>>],
      [initial |-> <<>>, body |-> << Lit("first", 1) >>],
      [initial |-> <<>>, body |-> << Lit("first", 2) >>],
      [initial |-> <<>>, body |-> << Lit("second", 1) >>],
      [initial |-> << Lit("first", 2) >>, body |-> <<>>],
      [initial |-> << Lit("first", 2), Lit("second", 2) >>, body |-> << Lit("first", 1) >>] }

ConsDeclareDerived ==
    \E parent \in 1..Len(classes) : \E lits \in ConsLiterals :
        Declare(MaxConsClasses, parent, <<>>, None, lits.initial, lits.body)

\* tp() and tp(init) with initial bytes for a part or all of the buffer.
ConsNew ==
    /\ insts = <<>>
    /\ \E c \in 1..Len(classes) : \E n \in 0..classes[c].size : \E init \in Bytes(n) :
          NewInstance(c, init)

NextCons == ConsDeclareBase \/ ConsDeclareDerived \/ ConsNew

SpecCons == InitDecode /\ [][NextCons]_vars

\* ------------------------------------------------------------------ shared storage specification
\* The k-th declared class has one field `first`: a 32-bit little-endian
\* integer, a 4-byte string, a 32-bit big-endian integer, then 16-bit native
\* integers.
ShareLayout(k) ==
    CASE k = 1 -> << Entry("first", Builtin("int"), IntDesc(0, 32, "le", <<>>)) >>
      [] k = 2 -> << Entry("first", Builtin("str"), SizedDesc(0, 4)) >>
      [] k = 3 -> << Entry("first", Builtin("int"), IntDesc(0, 32, "be", <<>>)) >>
      [] OTHER -> << Entry("first", Builtin("int"), IntDesc(0, 16, "h", <<>>)) >>

ShareDeclare ==
    Declare(MaxShareClasses, 0, ShareLayout(Len(classes) + 1), None, <<>>, <<>>)

\* The string field of a class declared with the defaults of StrFieldDesc.
DefaultStr(p) == [prop |-> p, encoding |-> "utf-8", terminator |-> << 0 >>]

\* tp(): the one allocation, zeroed.
ShareNew ==
    /\ bufs = <<>> /\ Len(insts) < MaxInsts
    /\ \E c \in 1..Len(classes) :
          /\ bufs' = << [i \in 1..classes[c].size |-> {}] >>
          /\ insts' = Append(insts, [tp |-> c, buf |-> 1])
          /\ last' = Last("new", "none", 0, Len(insts) + 1, c, <<>>, Len(bufs), NoArgs)
    /\ UNCHANGED <<classVars, field_map, intVars>>

\* tp(ref=x) for a class that fits the buffer.
ShareRef ==
    /\ Len(insts) < MaxInsts
    /\ \E i \in 1..Len(insts) : \E c \in 1..Len(classes) :
       \E ref \in {RefBuffer(bufs, insts[i].buf)} :
          /\ classes[c].size <= Len(bufs[insts[i].buf])
          /\ bufs' = ref.bufs
          /\ insts' = Append(insts, [tp |-> c, buf |-> ref.buf])
          /\ last' = Last("ref", "none", i, Len(insts) + 1, c, bufs[insts[i].buf], Len(bufs),
                          NoArgs)
    /\ UNCHANGED <<classVars, field_map, intVars>>

\* 0x30313233, 0, 1 and 0xffffffff
ShareInts ==
    { UNION { { 8 * k + b : b \in ByteBits(51 - k) } : k \in 0..3 }, {}, {0}, Bits(32) }

\* "3210", "ab", "" and three times "e acute"
ShareStrs == { << 51, 50, 49, 48 >>, << 97, 98 >>, <<>>, << 233, 233, 233 >> }

\* x.first = value through instance i
ShareSet ==
    \E i \in 1..Len(insts) :
       \E p \in {FindProp(classes, insts[i].tp, "first")} :
          /\ \/ /\ p.gen = "IntField"
                /\ \E v \in ShareInts :
                      /\ bufs' = [bufs EXCEPT ![insts[i].buf] = IntSetter(p, @, v, host)]
                      /\ last' = Last("set", "none", i, 0, insts[i].tp, bufs[insts[i].buf],
                                      Len(bufs), [value |-> v])
             \/ /\ p.gen = "StrField"
                /\ \E v \in ShareStrs : \E r \in {StrSetter(DefaultStr(p), bufs[insts[i].buf], v)} :
                      /\ bufs' = [bufs EXCEPT ![insts[i].buf] = r.mem]
                      /\ last' = Last("set", r.err, i, 0, insts[i].tp, bufs[insts[i].buf],
                                      Len(bufs), [value |-> v])
          /\ UNCHANGED <<classVars, field_map, insts, intVars>>

\* What x.first reads through an instance of class tp over buffer m.
ShareRead(tp, m) ==
    LET Read(p) == IF p.gen = "IntField" THEN IntGetter(p, m, host)
                   ELSE StrGetter(DefaultStr(p), m)
    IN Read(FindProp(classes, tp, "first"))

\* x.first through instance i
ShareGet ==
    /\ \E i \in 1..Len(insts) :
          last' = Last("get", "none", i, ShareRead(insts[i].tp, bufs[insts[i].buf]),
                       insts[i].tp, bufs[insts[i].buf], Len(bufs), NoArgs)
    /\ UNCHANGED <<classVars, field_map, instVars, intVars>>

NextShare == ShareDeclare \/ ShareNew \/ ShareRef \/ ShareSet \/ ShareGet

SpecShare == InitInt /\ [][NextShare]_vars

\* ------------------------------------------------------------------ decode properties
\* The signature forest as the design states it: the candidates of schema s
\* are the classes derived directly from s that declare at least one literal,
\* in registration order.
Candidates(cs, s) ==
    SelectSeq([c \in 1..Len(cs) |-> c],
              LAMBDA c : cs[c].parent = s /\ cs[c].initial # <<>>)

\* The current value of the field a signature key names, through nested
\* views for a dotted key; None when the schema has no such field.
RECURSIVE FieldValue(_, _, _, _)
FieldValue(cs, tp, buf, key) ==
    LET p == FindProp(cs, tp, key[1])
    IN IF Len(key) = 1
       THEN IF p.gen = "IntField" /\ p.offset < Len(buf) THEN buf[p.offset + 1] ELSE None
       ELSE IF p.gen = "StructField" /\ p.tp # 0 /\ p.offset + p.size <= Len(buf)
       THEN FieldValue(cs, p.tp, SubSeq(buf, p.offset + 1, p.offset + p.size), Tail(key))
       ELSE None

Satisfied(cs, tp, buf, cond) ==
    \A i \in 1..Len(cond) : FieldValue(cs, tp, buf, cond[i][1]) = cond[i][2]

RECURSIVE GreedyWalk(_, _, _, _)
GreedyWalk(cs, tp, buf, cur) ==
    LET cands == Candidates(cs, cur)
        hits == {i \in 1..Len(cands) : Satisfied(cs, tp, buf, cs[cands[i]].initial)}
    IN IF hits = {} THEN cur
       ELSE GreedyWalk(cs, tp, buf, cands[CHOOSE i \in hits : \A j \in hits : j <= i])

\* C1: decode() returns an instance whose schema is the result of the greedy
\* walk from the instance's schema: at each schema the most recently
\* registered candidate whose whole signature equals the instance's field
\* values, until no candidate matches.
C1_DecodeIsGreedyWalk ==
    last.op = "decode" =>
        /\ last.err = "none"
        /\ insts[last.res].tp
             = GreedyWalk(classes, insts[last.self].tp, last.pre, insts[last.self].tp)

\* C2: decode() never fails: it raises no error for any instance of any
\* successfully declared schema, and returns the instance's own schema when
\* no candidate matches.
C2_DecodeNeverFails ==
    last.op = "decode" =>
        /\ last.err = "none"
        /\ last.tp = insts[last.self].tp => insts[last.res].tp = insts[last.self].tp

\* The list read as s._decode_map.
Visible(s) == decode_map[MapOwner(classes, own_map, s)]

InList(c, o) == \E i \in 1..Len(decode_map[o]) : decode_map[o][i] = c

RECURSIVE Descends(_, _, _)
Descends(cs, c, a) ==
    IF c = a THEN TRUE ELSE IF c = 0 THEN FALSE ELSE Descends(cs, cs[c].parent, a)

\* C3: the registered signatures form a forest: a schema with a literal is in
\* the candidate list of its immediate parent and in no other list; a schema
\* without literals is in no list and owns a fresh list of its own, so the
\* candidates its descendants register are not visible from its parent or
\* from unrelated schemas.
C3_SignatureForest ==
    \A c \in 1..Len(classes) :
        IF classes[c].initial # <<>>
        THEN \A o \in 0..Len(classes) :
                 InList(c, o) <=> (o \in own_map /\ o = MapOwner(classes, own_map, classes[c].parent))
        ELSE /\ \A o \in 0..Len(classes) : ~InList(c, o)
             /\ c \in own_map
             /\ \A u \in 0..Len(classes) :
                    ~Descends(classes, u, c) =>
                        \A i \in 1..Len(Visible(c)) :
                            \A j \in 1..Len(Visible(u)) : Visible(c)[i] # Visible(u)[j]

\* C4: decode() returns the instance itself when the resolved schema is the
\* instance's schema; otherwise a new instance of the resolved schema over
\* the same storage: no buffer is allocated and none is copied, so every
\* instance decoded from a buffer reads what is written through another.
C4_DecodeAliases ==
    /\ last.op = "decode" /\ last.err = "none" =>
          /\ Len(bufs) = last.nbufs
          /\ IF last.tp = insts[last.self].tp
             THEN last.res = last.self
             ELSE /\ last.res # last.self
                  /\ insts[last.res].tp = last.tp
                  /\ insts[last.res].buf = insts[last.self].buf
    /\ Len(bufs) <= MaxBufs

\* A write through one instance while an instance of another schema, made by
\* decode, shares its buffer: the other instance reads the written byte.
C4_Witness ==
    /\ last.op = "set" /\ last.err = "none"
    /\ \E j \in 1..Len(insts) :
          /\ j # last.self
          /\ insts[j].tp # insts[last.self].tp
          /\ insts[j].buf = insts[last.self].buf
          /\ bufs[insts[j].buf] # last.pre
          /\ GetAttr(classes, insts[j].tp, bufs[insts[j].buf], <<"first">>).val
               = GetAttr(classes, insts[last.self].tp, bufs[insts[last.self].buf],
                         <<"first">>).val

\* ------------------------------------------------------------------ layout properties
\* The fields of the last declaration's schema: the inherited ones and the
\* ones its own layout creates, with the end (offset + width) of each.
OwnLoop == FieldLoop(classes, field_map, last.args.layout, 1, <<>>, 0)

InheritedEnds ==
    { FindProp(classes, last.args.parent, n).end :
        n \in { f \in ClassOf(classes, last.args.parent).fields :
                  FindProp(classes, last.args.parent, f).hasEnd } }

OwnEnds ==
    { OwnLoop.props[i][2].end : i \in { j \in 1..Len(OwnLoop.props) : OwnLoop.props[j][2].hasEnd } }

SetMax(S) == IF S = {} THEN 0 ELSE CHOOSE x \in S : \A y \in S : y <= x

ComputedMinimum == SetMax(InheritedEnds \cup OwnEnds)

\* The last operation declared a schema whose fields were all accepted.
DeclaredFields == last.op = "declare" /\ OwnLoop.err = "none"

\* C5: a declared size of at least the computed minimum is size(); a declared
\* size below the computed minimum fails the declaration; without a declared
\* size the declaration succeeds and size() is the computed minimum, the
\* maximum of offset + width over the schema's fields.
C5_SchemaSize ==
    DeclaredFields =>
        IF last.args.size = None
        THEN last.err = "none" /\ classes[last.tp].size = ComputedMinimum
        ELSE IF last.args.size >= ComputedMinimum
        THEN last.err = "none" /\ classes[last.tp].size = last.args.size
        ELSE last.err # "none"

\* C6: in every compiled schema every accessible field, inherited ones
\* included, ends at or before size(); a declared size smaller than the end
\* of such a field fails the declaration.
C6_FieldsWithinSize ==
    /\ \A c \in 1..Len(classes) :
          \A n \in classes[c].fields :
              FindProp(classes, c, n).hasEnd => FindProp(classes, c, n).end <= classes[c].size
    /\ DeclaredFields /\ last.args.size # None /\ last.args.size < ComputedMinimum
          => last.err # "none"

\* The registered types the annotation derives from, and the most derived of
\* them.
Supertypes(ann) == { i \in 1..Len(field_map) : AnnIsSubclass(ann, field_map[i][1]) }

MostDerived(ann) ==
    field_map[CHOOSE i \in Supertypes(ann) :
                 \A j \in Supertypes(ann) : MroLen(field_map[j][1]) <= MroLen(field_map[i][1])]

\* C7: a field gets the generator registered for the most derived registered
\* type its annotation derives from; when no registered type is a supertype
\* of the annotation the declaration fails.
C7_MostDerivedGenerator ==
    last.op = "declare" /\ Len(last.args.layout) = 1 /\ last.args.layout[1].ann # NoAnn =>
        IF Supertypes(last.args.layout[1].ann) = {}
        THEN last.err # "none"
        ELSE last.err = "none" =>
                 FindProp(classes, last.tp, last.args.layout[1].name).gen
                   = MostDerived(last.args.layout[1].ann)[2]

\* ------------------------------------------------------------------ integer properties
\* The descriptor of the last integer field declaration.
DeclaredDesc == last.args.layout[1].desc

KnownWidths == {8, 16, 32, 64}
KnownEndians == {"le", "be", "h"}

\* C8: declaring an integer field fails at declaration time whenever its
\* width is not 8, 16, 32 or 64 or its byte order is not big, little or
\* native, width 8 with an unknown byte order included.
C8_UnsupportedFails ==
    last.op = "intfield"
      /\ (DeclaredDesc.width \notin KnownWidths \/ DeclaredDesc.endian \notin KnownEndians)
      => last.err # "none"

Unsupported(d) ==
    \/ d.width \notin KnownWidths
    \/ d.width # 8 /\ d.endian \notin KnownEndians

\* C8, amended: the declaration fails exactly when the width is not 8, 16, 32
\* or 64, or the width is 16, 32 or 64 and the byte order is not big, little
\* or native; a one-byte field is accepted with any byte order. A failed
\* declaration leaves no class and no instance, and every field that can be
\* accessed is a supported one, so no access fails for this reason.
C8_UnsupportedFailsAmended ==
    /\ last.op = "intfield" => (last.err # "none" <=> Unsupported(DeclaredDesc))
    /\ last.op = "intfield" /\ last.err # "none" => ~intf.declared /\ mem = <<>>
    /\ intf.declared => ~Unsupported(intf.prop)
    /\ last.op \in {"get", "set"} => last.err = "none"

\* A one-byte field of unknown byte order, declared and read.
C8_Witness ==
    /\ intf.declared /\ intf.prop.width = 8 /\ intf.prop.endian \notin KnownEndians
    /\ last.op = "get"

\* C9: for every width, byte order and bit range within the width, a value
\* that fits the field reads back as written.
C9_RoundTrip ==
    last.op = "set" /\ last.args.value \subseteq Bits(ValueBits(intf.prop))
      => IntGetter(intf.prop, mem, host) = last.args.value

\* The storage unit of the field as a word in the field's byte order.
Unit(m) ==
    IF intf.prop.width = 8 THEN m[intf.prop.offset + 1]
    ELSE get_field(m, intf.prop.offset, intf.prop.width, intf.prop.endian, host.order)

\* C10: writing V to the bit range (msb, lsb) sets bits lsb..msb of the unit
\* to the low bits of V and changes no other bit of the unit and no other
\* byte of the buffer.
C10_BitRangeFrame ==
    last.op = "set" /\ intf.prop.bit # <<>> =>
        /\ \A b \in intf.prop.bit[2]..intf.prop.bit[1] :
              b \in Unit(mem) <=> (b - intf.prop.bit[2]) \in last.args.value
        /\ \A b \in Bits(intf.prop.width) \ (intf.prop.bit[2]..intf.prop.bit[1]) :
              b \in Unit(mem) <=> b \in Unit(last.pre)
        /\ \A i \in 1..Len(mem) :
              (i - 1 < intf.prop.offset \/ i - 1 >= intf.prop.offset + intf.prop.width \div 8)
                 => mem[i] = last.pre[i]

\* The offset of the byte of a little- or big-endian w-bit field at offset n
\* that holds bits 8i..8i+7 of the value.
ByteAt(n, w, ed, i) == IF ed = "le" THEN n + i ELSE n + (w \div 8) - 1 - i

\* The integer a little- or big-endian field assembles from its bytes.
Assembled(m, p) ==
    UNION { { 8 * i + b : b \in m[ByteAt(p.offset, p.width, p.endian, i) + 1] } :
              i \in 0..((p.width \div 8) - 1) }

\* A whole little- or big-endian field of 16, 32 or 64 bits.
WholeField(p) == p.width \in {16, 32, 64} /\ p.bit = <<>> /\ p.endian \in {"le", "be"}

\* C11: on either host byte order, writing v < 2^w to a whole multi-byte
\* field stores byte i of v at offset N + i (little-endian) or
\* N + w/8 - 1 - i (big-endian) and changes no byte outside the field;
\* reading returns the integer assembled by the inverse rule.
C11_ByteOrder ==
    /\ last.op = "set" /\ WholeField(intf.prop) /\ last.args.value \subseteq Bits(intf.prop.width) =>
          /\ \A i \in 0..((intf.prop.width \div 8) - 1) :
                mem[ByteAt(intf.prop.offset, intf.prop.width, intf.prop.endian, i) + 1]
                  = { b \in 0..7 : 8 * i + b \in last.args.value }
          /\ \A i \in 1..Len(mem) :
                (i - 1 < intf.prop.offset \/ i - 1 >= intf.prop.offset + intf.prop.width \div 8)
                   => mem[i] = last.pre[i]
    /\ last.op = "get" /\ WholeField(intf.prop) => last.res = Assembled(mem, intf.prop)

\* 1 written to a big-endian field on a little-endian host with a byte in
\* front of the field.
C11_Witness ==
    /\ last.op = "set" /\ WholeField(intf.prop) /\ intf.prop.endian = "be"
    /\ host.order = "little" /\ intf.prop.offset = 1 /\ last.args.value = {0}
    /\ last.pre[1] # {}

\* ------------------------------------------------------------------ string properties
\* The last operation accessed the declared string field.
OnStrField(op) == last.op = op /\ intf.declared /\ intf.prop.gen = "StrField"

\* The byte the claim pads with.
PadByte(terminator) == IF terminator = <<>> THEN 0 ELSE terminator[1] % 256

\* C12: setting a string field never fails and writes exactly size bytes,
\* the encoded value cut to size bytes and then padding with the byte of the
\* terminator set's first character, or 0 for an empty terminator set.
C12_SetStrTotal ==
    OnStrField("set") =>
        /\ last.err = "none"
        /\ \A i \in 1..Len(mem) :
              IF i - 1 < intf.prop.offset \/ i - 1 >= intf.prop.offset + intf.prop.size
              THEN mem[i] = last.pre[i]
              ELSE ByteVal(mem[i])
                     = IF i - intf.prop.offset <= Len(StrEncode(intf.encoding, last.args.value).bytes)
                       THEN StrEncode(intf.encoding, last.args.value).bytes[i - intf.prop.offset]
                       ELSE PadByte(intf.terminator)

\* The content cut before the first character that is in the terminator set.
CutAtAny(ret, terminator) ==
    LET At == { i \in 1..Len(ret) : \E j \in 1..Len(terminator) : ret[i] = terminator[j] }
    IN IF At = {} THEN ret
       ELSE SubSeq(ret, 1, (CHOOSE i \in At : \A j \in At : i <= j) - 1)

\* C13: reading a string field returns the decoded content cut before the
\* first character that is a member of the terminator set, and the whole
\* content when the set is empty or none of its characters occurs.
C13_GetStrCut ==
    OnStrField("get") =>
        last.res = CutAtAny(BytesDecode(intf.encoding,
                                        Slice(mem, intf.prop.offset, intf.prop.size), 1),
                            intf.terminator)

\* ------------------------------------------------------------------ nested field properties
\* Every cached sub-instance is an instance of the field's type over exactly
\* the bytes [offset, offset + size) of its owner's window.
SubAliases ==
    \A i \in 1..Len(insts) : \A k \in 1..Len(insts[i].cache) :
        LET p == FindProp(classes, insts[i].tp, insts[i].cache[k][1])
            sub == insts[insts[i].cache[k][2]]
        IN /\ sub.tp = p.tp
           /\ sub.buf = insts[i].buf
           /\ sub.off = insts[i].off + p.offset
           /\ sub.len = p.size
           /\ View(bufs, sub) = SubSeq(View(bufs, insts[i]), p.offset + 1, p.offset + p.size)

\* A read returns the object cached for the field, the one cached before the
\* read when there was one; an assignment to the field is rejected and
\* changes nothing.
ReadsCached ==
    /\ last.op = "getstruct" =>
          /\ last.err = "none"
          /\ InCache(insts[last.self].cache, last.args.name)
          /\ last.res = DictGet(insts[last.self].cache, last.args.name)
          /\ last.args.cached # 0 => last.res = last.args.cached
    /\ last.op = "setstruct" => last.err = "AttributeError" /\ bufs = last.pre

\* No step changes or drops an entry of an instance's cache.
CacheStable ==
    \A i \in 1..Len(insts) : \A k \in 1..Len(insts[i].cache) :
        /\ Len(insts') >= i
        /\ Len(insts'[i].cache) >= k
        /\ insts'[i].cache[k] = insts[i].cache[k]

\* C14: whatever reads and writes are interleaved, every read of a nested
\* field returns the sub-instance its first read created; the sub-instance
\* aliases exactly the bytes [offset, offset + size) of the owner's buffer;
\* assigning to the field is rejected.
C14_NestedIdentity == [](SubAliases /\ ReadsCached) /\ [][CacheStable]_vars

\* A second read of a nested field at offset 1, after a write through the
\* sub-instance that shows in the owner's buffer.
C14_Witness ==
    /\ last.op = "getstruct" /\ last.args.cached # 0
    /\ insts[last.self].off = 0 /\ insts[last.res].off = 1
    /\ bufs[insts[last.self].buf][2] = 1
    /\ insts[last.res].tp = 1

\* ------------------------------------------------------------------ construction properties
\* The literal of the most derived class of c's mro that gives field `name`
\* one; None when no class does.
RECURSIVE LiteralOf(_, _, _)
LiteralOf(cs, c, name) ==
    IF c = 0 THEN None
    ELSE IF \E k \in 1..Len(cs[c].initial) : cs[c].initial[k][1] = << name >>
    THEN DictGet(cs[c].initial, << name >>)
    ELSE LiteralOf(cs, cs[c].parent, name)

\* C15: after tp(init) on a fresh allocation every field with a literal
\* reads as the literal of the most derived class that gives it one, and
\* every byte no literal covers holds the initial byte, or zero past the
\* initial bytes.
C15_ConstructionOrder ==
    last.op = "new" =>
        /\ last.err = "none"
        /\ \A name \in classes[last.tp].fields :
              LET p == FindProp(classes, last.tp, name)
                  lit == LiteralOf(classes, last.tp, name)
                  byte == bufs[insts[last.res].buf][p.offset + 1]
              IN IF lit # None
                 THEN GetAttr(classes, last.tp, bufs[insts[last.res].buf], << name >>).val = lit
                 ELSE byte = IF p.offset + 1 <= Len(last.pre) THEN last.pre[p.offset + 1] ELSE 0

\* An instance of a class with its own literal for `first` over an ancestor's,
\* built from initial bytes that differ from both.
C15_Witness ==
    /\ last.op = "new" /\ last.err = "none" /\ Len(last.pre) = 3
    /\ classes[last.tp].parent # 0
    /\ LiteralOf(classes, last.tp, "first") = 1
    /\ LiteralOf(classes, classes[last.tp].parent, "first") = 2
    /\ last.pre[1] = 0 /\ last.pre[3] = 1

\* ------------------------------------------------------------------ shared storage properties
\* The bytes a write of v through a field leaves in the field's place: byte k
\* of the integer in the field's byte order, or the encoded string cut and
\* padded.
WrittenBytes(p, v) ==
    IF p.gen = "IntField"
    THEN [k \in 1..(p.width \div 8) |->
            ByteVal({ b \in 0..7 :
                        8 * (IF p.endian = "le" \/ (p.endian = "h" /\ host.order = "little")
                             THEN k - 1 ELSE (p.width \div 8) - k) + b \in v })]
    ELSE LET enc == StrEncode("utf-8", v).bytes
         IN [k \in 1..p.size |-> IF k <= Len(enc) THEN enc[k] ELSE 0]

\* What a field reads from bytes bs, by the definition of its type.
ReadOf(p, bs) ==
    IF p.gen = "IntField"
    THEN UNION { { 8 * (IF p.endian = "le" \/ (p.endian = "h" /\ host.order = "little")
                        THEN k - 1 ELSE (p.width \div 8) - k) + b : b \in ByteBits(bs[k]) } :
                  k \in 1..(p.width \div 8) }
    ELSE SplitFirst(BytesDecode("utf-8", SubSeq(bs, 1, p.size), 1), << 0 >>)

\* The bytes of the buffer after the last write: the written ones, then the
\* ones the write did not reach.
AfterWrite ==
    LET p == FindProp(classes, last.tp, "first")
        w == WrittenBytes(p, last.args.value)
    IN [k \in 1..Len(last.pre) |-> IF k <= Len(w) THEN w[k] ELSE ByteVal(last.pre[k])]

\* C16: an instance built with ref= shares the storage whatever the schemas
\* are: no allocation is made for it, and after a write through any instance
\* a read through every other instance of the buffer gives the bytes just
\* written (0x30313233 written little-endian reads "3210" as a string).
C16_SharedStorage ==
    /\ last.op = "ref" =>
          /\ Len(bufs) = last.nbufs
          /\ insts[last.res].buf = insts[last.self].buf
          /\ bufs[insts[last.res].buf] = last.pre
    /\ last.op = "set" /\ last.err = "none" =>
          \A j \in 1..Len(insts) :
              insts[j].buf = insts[last.self].buf =>
                  ShareRead(insts[j].tp, bufs[insts[j].buf])
                    = ReadOf(FindProp(classes, insts[j].tp, "first"), AfterWrite)

\* 0x30313233 written through the little-endian integer and read as "3210"
\* through a string instance built with ref=.
C16_Witness ==
    /\ last.op = "get" /\ last.tp = 2 /\ last.res = << 51, 50, 49, 48 >>
    /\ Len(insts) >= 2 /\ Len(bufs) = 1
    /\ \E j \in 1..Len(insts) : insts[j].tp = 1

\* ------------------------------------------------------------------ decode: result schema and frame
\* C17: the schema decode() returns is the instance's schema or a transitive
\* descendant of it, never a sibling branch or a schema derived from an
\* unrelated base, also when no ancestor declares a literal.
C17_DecodeDescends ==
    last.op = "decode" /\ last.err = "none" =>
        Descends(classes, last.tp, insts[last.self].tp)

\* C18: decode() leaves every byte of the backing buffer as it was, also when
\* it returns a new instance of a more specific schema.
C18_DecodeFrame ==
    last.op = "decode" => bufs[insts[last.self].buf] = last.pre

====
